---- MODULE Spec2Model ----
(***************************************************************************)
(* Model of app.py: a LINE webhook (/callback) that verifies the request   *)
(* signature, dispatches text events to on_text, which answers either with *)
(* a fixed crisis message or with the text ask_gpt obtains from the        *)
(* completion API (primary model, then fallback model, then an apology).   *)
(*                                                                         *)
(* Strings of the program are sequences of Unicode code points, so that    *)
(* str.strip(), the substring test and string concatenation are computed   *)
(* rather than assumed.                                                    *)
(***************************************************************************)
EXTENDS Integers, Sequences, FiniteSets, TLC

\* ------------------------------------------------------------------ bounds
MaxLen == 3        \* longest message text of an inbound event
MaxApiLen == 2     \* longest content returned by the completion API
MaxEvents == 2     \* most events in one webhook body

\* --------------------------------------------------------------- alphabet
\* U+0020 space, U+60F3 and U+6B7B (the two characters of one crisis keyword)
UserAlphabet == {32, 24819, 27515}
\* U+0020 space, U+4F60
ApiAlphabet == {32, 20320}

SeqsUpTo(S, n) == UNION {[1..k -> S] : k \in 0..n}

\* Python's None, kept in the domain of strings (no code point is negative)
None == <<-1>>

\* x or ""
OrEmpty(x) == IF x = None THEN <<>> ELSE x

\* code points c with chr(c).isspace(), the characters str.strip() removes
Whitespace ==
  {9, 10, 11, 12, 13, 28, 29, 30, 31, 32, 133, 160, 5760} \cup (8192..8202)
    \cup {8232, 8233, 8239, 8287, 12288}

\* str.strip()
Strip(s) ==
  LET keep == {i \in 1..Len(s) : s[i] \notin Whitespace}
  IN  IF keep = {} THEN <<>>
      ELSE LET lo == CHOOSE i \in keep : \A j \in keep : i <= j
               hi == CHOOSE i \in keep : \A j \in keep : j <= i
           IN  SubSeq(s, lo, hi)

\* w in s
Contains(s, w) ==
  \E i \in 0..(Len(s) - Len(w)) : SubSeq(s, i + 1, i + Len(w)) = w

\* ------------------------------------------------------ program constants
CRISIS_WORDS ==
  << <<33258, 27578>>, <<24819, 27515>>, <<19981, 24819, 27963>>,
     <<36629, 29983>>, <<33258, 25105, 20102, 26039>>, <<21106, 33109>>,
     <<36339, 27155>>, <<20663, 23475, 33258, 24049>> >>

CRISIS_REPLY ==
  <<9888, 65039, 32, 25105, 24456, 22312, 20046, 20320, 30340, 23433, 20840,
    65292, 20063, 35613, 35613, 20320, 39000, 24847, 35498, 20986, 20358,
    12290, 10, 33509, 20320, 26377, 31435, 21363, 21361, 38570, 65292, 35531,
    31435, 21051, 25765, 25171, 32, 49, 49, 48, 32, 47, 32, 49, 49, 57, 12290,
    10, 38656, 35201, 20670, 35380, 21487, 25765, 32, 42, 42, 49, 57, 50, 53,
    32, 23433, 24515, 23560, 32218, 42, 42, 65288, 50, 52, 23567, 26178,
    65289, 12290, 10, 22914, 26524, 20320, 39000, 24847, 65292, 20063, 21487,
    20197, 21578, 35380, 25105, 65306, 27492, 21051, 26368, 35731, 20320,
    38627, 21463, 30340, 26159, 20160, 40636, 65311, 25105, 26371, 22312,
    36889, 35041, 38506, 20320, 12290>>

\* the string ask_gpt returns when both completion calls fail
APOLOGY ==
  <<25265, 27465, 65292, 25105, 36889, 37002, 26283, 26178, 36935, 21040,
    21839, 38988, 65292, 20294, 25105, 20173, 22312, 36889, 35041, 12290,
    39000, 24847, 22810, 35498, 19968, 40670, 30332, 29983, 20102, 20160,
    40636, 21966, 65311>>

\* the literal part of the f-string ask_gpt returns when there is no client
NO_KEY_NOTICE ==
  <<65288, 23578, 26410, 35373, 23450, 32, 79, 80, 69, 78, 65, 73, 95, 65,
    80, 73, 95, 75, 69, 89, 65289, 20320, 21083, 21083, 35498, 65306>>

\* "gpt-4o", the default of os.environ.get("OPENAI_MODEL", ...)
DefaultModel == <<103, 112, 116, 45, 52, 111>>

\* "gpt-4o-mini", the default of os.environ.get("OPENAI_FALLBACK_MODEL", ...)
DefaultFallbackModel ==
  <<103, 112, 116, 45, 52, 111, 45, 109, 105, 110, 105>>

\* ------------------------------------------------------------------ inputs
\* values an environment variable may hold: unset, blank, set ("k")
EnvValues == {None, <<32>>, <<107>>}

\* values of OPENAI_MODEL: unset, or "gpt-4o-mini" (the fallback's default)
ModelEnvValues == {None, <<103, 112, 116, 45, 52, 111, 45, 109, 105, 110, 105>>}

\* values of OPENAI_FALLBACK_MODEL: unset, or " gpt-4o\n" (the primary's
\* default, with whitespace around it)
FallbackModelEnvValues == {None, <<32, 103, 112, 116, 45, 52, 111, 10>>}

\* event.message.text of a text event
MessageTexts == SeqsUpTo(UserAlphabet, MaxLen) \cup {None}

\* what one client.chat.completions.create(...) + resp.choices[0].message.content
\* can do: raise, return a response without choices (IndexError on [0]),
\* or yield a content that is a string or None
ApiOutcomes ==
  {[kind |-> "raise", content |-> None], [kind |-> "nochoices", content |-> None]}
    \cup {[kind |-> "ok", content |-> c] : c \in SeqsUpTo(ApiAlphabet, MaxApiLen) \cup {None}}

\* the events of a body: event i carries reply token i; "text" is a
\* MessageEvent with a TextMessage, "other" is any other event
EventLists ==
  UNION {{[i \in 1..k |-> [type |-> ty[i], reply_token |-> i]] :
            ty \in [1..k -> {"text", "other"}]} : k \in 0..MaxEvents}

\* a request body: valid JSON carrying events, or something that is not a
\* webhook payload at all
Bodies ==
  {[json |-> TRUE, events |-> evs] : evs \in EventLists}
    \cup {[json |-> FALSE, events |-> <<>>]}

\* HMAC of a body under a secret, as an ideal MAC
Hmac(secret, body) == <<secret, body>>

WrongSecret == <<120>>
OtherBody(body) == [json |-> ~body.json, events |-> <<>>]

\* X-Line-Signature: absent, empty, or a MAC somebody computed
SignaturesFor(secret, body) ==
  {None, <<>>}
    \cup {Hmac(s, b) : s \in {secret, WrongSecret}, b \in {body, OtherBody(body)}}

NoRequest == [signature |-> None, body |-> [json |-> FALSE, events |-> <<>>]]
NoResponse == [status |-> 0, text |-> ""]
NoEvent == [type |-> "none", reply_token |-> 0, text |-> None]

\* ------------------------------------------------------------------- state
VARIABLES
  CHANNEL_ACCESS_TOKEN,  \* stripped LINE_CHANNEL_ACCESS_TOKEN
  CHANNEL_SECRET,        \* stripped LINE_CHANNEL_SECRET
  OPENAI_API_KEY,        \* stripped OPENAI_API_KEY
  OPENAI_MODEL,          \* model identifier of the primary call
  OPENAI_FALLBACK_MODEL, \* model identifier of the fallback call
  client,                \* TRUE iff the OpenAI client object was built
  pc,                    \* position of the worker
  request,               \* the /callback request being served
  response,              \* its HTTP response, NoResponse until returned
  events,                \* parsed events not dispatched yet
  cur,                   \* the event on_text is handling, NoEvent outside
  user_text,             \* on_text's user_text
  reply,                 \* text of on_text's reply
  calls,                 \* completion calls made for cur
  sends,                 \* reply_message attempts made for cur
  errlog,                \* app.logger.error lines of the running handler
  handled,               \* text events of this request given to on_text
  attempts,              \* reply_message attempts of this request
  failed                 \* reply_message attempts of this request that raised

vars == <<CHANNEL_ACCESS_TOKEN, CHANNEL_SECRET, OPENAI_API_KEY, OPENAI_MODEL,
          OPENAI_FALLBACK_MODEL, client, pc, request, response,
          events, cur, user_text, reply, calls, sends, errlog, handled, attempts,
          failed>>

config == <<CHANNEL_ACCESS_TOKEN, CHANNEL_SECRET, OPENAI_API_KEY, OPENAI_MODEL,
            OPENAI_FALLBACK_MODEL, client>>

\* --------------------------------------------------------- pure operations
\* os.environ.get(name, default).strip(), v = None when name is unset
EnvGet(v, default) == Strip(IF v = None THEN default ELSE v)

\* module start raises RuntimeError
StartupAborts(token, secret) == token = <<>> \/ secret = <<>>

\* variant: the client is built whatever the key is
HasClientAlways(key) == TRUE

\* client = OpenAI(api_key=...) if OPENAI_API_KEY else None
HasClient(key) == key # <<>>

\* variant: user_text in CRISIS_WORDS (whole-text match)
IsCrisisExact(text) == \E k \in 1..Len(CRISIS_WORDS) : text = CRISIS_WORDS[k]

\* any(w in user_text for w in CRISIS_WORDS)
IsCrisis(text) == \E k \in 1..Len(CRISIS_WORDS) : Contains(text, CRISIS_WORDS[k])

\* the f-string of ask_gpt: the notice followed by {user_text}
NoClientReply(text) == NO_KEY_NOTICE \o text

\* variant: the content is returned without .strip()
CompletionTextRaw(content) == OrEmpty(content)

\* (resp.choices[0].message.content or "").strip()
CompletionText(content) == Strip(OrEmpty(content))

\* the try block around a completion call is left through except
Raises(outcome) == outcome.kind # "ok"

\* variant: the fallback call is made whatever the primary call did
AfterPrimaryAlwaysFallback(outcome) == "fallback"

\* where ask_gpt continues after the primary call
AfterPrimary(outcome) == IF Raises(outcome) THEN "fallback" ELSE "reply"

\* variant: the fallback's text is dropped
FallbackResultAlwaysApology(outcome) == APOLOGY

\* variant: no apology, the (absent) content is returned
FallbackResultNoApology(outcome) == Strip(OrEmpty(outcome.content))

\* what ask_gpt returns after the fallback call
FallbackResult(outcome) ==
  IF Raises(outcome) THEN APOLOGY ELSE CompletionText(outcome.content)

\* if not signature
MissingSignature(signature) == signature = None \/ signature = <<>>

\* variant: the signature is not compared
SignatureValidUnchecked(secret, body, signature) == TRUE

\* handler.handle does not raise InvalidSignatureError
SignatureValid(secret, body, signature) == signature = Hmac(secret, body)

\* variant: callback answers without waiting for the handlers
HandleReturnsEarly(evs) == TRUE

\* handler.handle has returned: every parsed event was dispatched
HandleReturns(evs) == evs = <<>>

\* variant: a failed send is retried
AfterReplyRetry(ok) == IF ok THEN "return" ELSE "reply"

\* where on_text continues after reply_message
AfterReply(ok) == "return"

\* ------------------------------------------------------------------- Init
Init ==
  \E token \in EnvValues, secret \in EnvValues, key \in EnvValues,
     model \in ModelEnvValues, fallback \in FallbackModelEnvValues :
    /\ CHANNEL_ACCESS_TOKEN = EnvGet(token, <<>>)
    /\ CHANNEL_SECRET = EnvGet(secret, <<>>)
    /\ OPENAI_API_KEY = EnvGet(key, <<>>)
    /\ OPENAI_MODEL = EnvGet(model, DefaultModel)
    /\ OPENAI_FALLBACK_MODEL = EnvGet(fallback, DefaultFallbackModel)
    /\ client = HasClient(EnvGet(key, <<>>))
    /\ pc = IF StartupAborts(EnvGet(token, <<>>), EnvGet(secret, <<>>))
            THEN "aborted" ELSE "idle"
    /\ request = NoRequest
    /\ response = NoResponse
    /\ events = <<>>
    /\ cur = NoEvent
    /\ user_text = <<>>
    /\ reply = <<>>
    /\ calls = <<>>
    /\ sends = <<>>
    /\ errlog = <<>>
    /\ handled = 0
    /\ attempts = 0
    /\ failed = 0

\* ---------------------------------------------------------------- actions
\* POST /callback arrives
Callback(signature, body) ==
  /\ pc = "idle"
  /\ pc' = "callback"
  /\ request' = [signature |-> signature, body |-> body]
  /\ UNCHANGED <<config, response, events, cur, user_text, reply, calls, sends,
                 errlog, handled, attempts, failed>>

\* the view has returned (or raised) and the response went out: the request
\* and everything on_text held for it are discarded
Teardown ==
  /\ pc = "done"
  /\ pc' = "idle"
  /\ request' = NoRequest
  /\ response' = NoResponse
  /\ events' = <<>>
  /\ cur' = NoEvent
  /\ user_text' = <<>>
  /\ reply' = <<>>
  /\ calls' = <<>>
  /\ sends' = <<>>
  /\ errlog' = <<>>
  /\ handled' = 0
  /\ attempts' = 0
  /\ failed' = 0
  /\ UNCHANGED config

\* if not signature: return "missing signature", 400
RejectMissing ==
  /\ pc = "callback"
  /\ MissingSignature(request.signature)
  /\ errlog' = Append(errlog, "missing signature")
  /\ response' = [status |-> 400, text |-> "missing signature"]
  /\ pc' = "done"
  /\ UNCHANGED <<config, request, events, cur, user_text, reply, calls, sends,
                 handled, attempts, failed>>

\* handler.handle raises InvalidSignatureError
RejectInvalid ==
  /\ pc = "callback"
  /\ ~MissingSignature(request.signature)
  /\ ~SignatureValid(CHANNEL_SECRET, request.body, request.signature)
  /\ errlog' = Append(errlog, "invalid signature")
  /\ response' = [status |-> 400, text |-> "invalid signature"]
  /\ pc' = "done"
  /\ UNCHANGED <<config, request, events, cur, user_text, reply, calls, sends,
                 handled, attempts, failed>>

\* handler.handle raises something else while parsing the body: callback
\* has no except clause for it, the framework answers 500
ParseError ==
  /\ pc = "callback"
  /\ ~MissingSignature(request.signature)
  /\ SignatureValid(CHANNEL_SECRET, request.body, request.signature)
  /\ ~request.body.json
  /\ response' = [status |-> 500, text |-> "Internal Server Error"]
  /\ pc' = "done"
  /\ UNCHANGED <<config, request, events, cur, user_text, reply, calls, sends,
                 errlog, handled, attempts, failed>>

\* handler.handle parsed the body and starts dispatching
Parsed ==
  /\ pc = "callback"
  /\ ~MissingSignature(request.signature)
  /\ SignatureValid(CHANNEL_SECRET, request.body, request.signature)
  /\ request.body.json
  /\ events' = request.body.events
  /\ pc' = "dispatch"
  /\ UNCHANGED <<config, request, response, cur, user_text, reply, calls, sends,
                 errlog, handled, attempts, failed>>

\* handler.handle gives the next event, a text message, to on_text
DispatchText(text) ==
  /\ pc = "dispatch"
  /\ events # <<>>
  /\ Head(events).type = "text"
  /\ cur' = [type |-> "text", reply_token |-> Head(events).reply_token, text |-> text]
  /\ events' = Tail(events)
  /\ handled' = handled + 1
  /\ pc' = "on_text"
  /\ UNCHANGED <<config, request, response, user_text, reply, calls, sends,
                 errlog, attempts, failed>>

\* the next event has no registered handler
DispatchOther ==
  /\ pc = "dispatch"
  /\ events # <<>>
  /\ Head(events).type # "text"
  /\ events' = Tail(events)
  /\ UNCHANGED <<config, pc, request, response, cur, user_text, reply, calls,
                 sends, errlog, handled, attempts, failed>>

\* return "OK", 200
CallbackReturn ==
  /\ pc = "dispatch"
  /\ HandleReturns(events)
  /\ response' = [status |-> 200, text |-> "OK"]
  /\ pc' = "done"
  /\ UNCHANGED <<config, request, events, cur, user_text, reply, calls, sends,
                 errlog, handled, attempts, failed>>

\* on_text up to the first outbound call: strip, crisis test, ask_gpt's
\* client test
OnText ==
  /\ pc = "on_text"
  /\ LET ut == Strip(OrEmpty(cur.text))
     IN  /\ user_text' = ut
         /\ IF IsCrisis(ut)
              THEN reply' = CRISIS_REPLY /\ pc' = "reply"
              ELSE IF ~client
                     THEN reply' = NoClientReply(ut) /\ pc' = "reply"
                     ELSE reply' = reply /\ pc' = "primary"
  /\ UNCHANGED <<config, request, response, events, cur, calls, sends, errlog,
                 handled, attempts, failed>>

\* ask_gpt: the call with OPENAI_MODEL
AskPrimary(outcome) ==
  /\ pc = "primary"
  /\ calls' = Append(calls, [model |-> OPENAI_MODEL, outcome |-> outcome])
  /\ pc' = AfterPrimary(outcome)
  /\ IF Raises(outcome)
       THEN /\ errlog' = Append(errlog, "openai primary")
            /\ reply' = reply
       ELSE /\ errlog' = errlog
            /\ reply' = CompletionText(outcome.content)
  /\ UNCHANGED <<config, request, response, events, cur, user_text, sends,
                 handled, attempts, failed>>

\* ask_gpt: the call with OPENAI_FALLBACK_MODEL, inside the except branch
AskFallback(outcome) ==
  /\ pc = "fallback"
  /\ calls' = Append(calls, [model |-> OPENAI_FALLBACK_MODEL, outcome |-> outcome])
  /\ reply' = FallbackResult(outcome)
  /\ errlog' = IF Raises(outcome) THEN Append(errlog, "openai fallback") ELSE errlog
  /\ pc' = "reply"
  /\ UNCHANGED <<config, request, response, events, cur, user_text, sends,
                 handled, attempts, failed>>

\* line_bot_api.reply_message(event.reply_token, reply), ok = it did not raise
ReplyMessage(ok) ==
  /\ pc = "reply"
  /\ sends' = Append(sends, [token |-> cur.reply_token, text |-> reply, ok |-> ok])
  /\ attempts' = attempts + 1
  /\ failed' = IF ok THEN failed ELSE failed + 1
  /\ errlog' = IF ok THEN errlog ELSE Append(errlog, "line reply")
  /\ pc' = AfterReply(ok)
  /\ UNCHANGED <<config, request, response, events, cur, user_text, reply, calls,
                 handled>>

\* on_text returns to handler.handle: its event and locals are gone
OnTextReturn ==
  /\ pc = "return"
  /\ pc' = "dispatch"
  /\ cur' = NoEvent
  /\ user_text' = <<>>
  /\ reply' = <<>>
  /\ calls' = <<>>
  /\ sends' = <<>>
  /\ errlog' = <<>>
  /\ UNCHANGED <<config, request, response, events, handled, attempts, failed>>

Next ==
  \/ \E body \in Bodies : \E signature \in SignaturesFor(CHANNEL_SECRET, body) :
       Callback(signature, body)
  \/ RejectMissing
  \/ RejectInvalid
  \/ ParseError
  \/ Parsed
  \/ \E text \in MessageTexts : DispatchText(text)
  \/ DispatchOther
  \/ CallbackReturn
  \/ OnText
  \/ \E outcome \in ApiOutcomes : AskPrimary(outcome)
  \/ \E outcome \in ApiOutcomes : AskFallback(outcome)
  \/ \E ok \in BOOLEAN : ReplyMessage(ok)
  \/ OnTextReturn
  \/ Teardown

Spec == Init /\ [][Next]_vars

TypeOK ==
  /\ client \in BOOLEAN
  /\ pc \in {"aborted", "idle", "callback", "done", "dispatch", "on_text", "primary",
             "fallback", "reply", "return"}
  /\ response.status \in {0, 200, 400, 500}
  /\ Len(calls) <= 2
  /\ handled \in 0..MaxEvents
  /\ attempts \in 0..MaxEvents
  /\ failed \in 0..attempts

\* ---------------------------------------------------------------- claims
\* the event's message text contains a crisis keyword
CrisisText(text) ==
  \E k \in 1..Len(CRISIS_WORDS) : Contains(OrEmpty(text), CRISIS_WORDS[k])

IsTextEvent(e) == e.type = "text"
TextEvents(body) == SelectSeq(body.events, IsTextEvent)

\* the signature header is absent, empty, or is not the MAC of the body
\* under the channel secret
BadSignature ==
  \/ request.signature = None
  \/ request.signature = <<>>
  \/ request.signature # <<CHANNEL_SECRET, request.body>>

\* t is s without its leading and trailing whitespace
IsTrimOf(t, s) ==
  \E i \in 0..Len(s) : \E j \in i..Len(s) :
    /\ t = SubSeq(s, i + 1, j)
    /\ \A k \in 1..i : s[k] \in Whitespace
    /\ \A k \in (j + 1)..Len(s) : s[k] \in Whitespace
    /\ t # <<>> => (t[1] \notin Whitespace /\ t[Len(t)] \notin Whitespace)

\* on_text is handling, or has handled, a text event without crisis keyword
NonCrisisEvent == cur.type = "text" /\ ~CrisisText(cur.text)

\* on_text has finished with cur and is about to return
Returned == pc = "return"

\* C1: a request whose signature header is absent, empty or not the MAC of
\* its body is answered 400 and none of its events is processed: on_text is
\* never entered, no completion call is made and no reply is sent.
C1_BadSignatureRejected ==
  (pc # "aborted" /\ BadSignature) =>
    /\ pc \in {"idle", "callback", "done"}
    /\ events = <<>> /\ cur = NoEvent /\ handled = 0
    /\ calls = <<>> /\ sends = <<>> /\ attempts = 0
    /\ response.status \in {0, 400}
    /\ pc = "done" => response.status = 400

C1_Witness ==
  /\ pc = "done" /\ response.status = 400
  /\ request.signature = <<CHANNEL_SECRET, OtherBody(request.body)>>
  /\ Len(TextEvents(request.body)) > 0

\* C2: for a text event whose message text contains a crisis keyword the
\* reply sent is exactly CRISIS_REPLY and no completion call is made.
C2_CrisisReply ==
  (cur.type = "text" /\ CrisisText(cur.text)) =>
    /\ calls = <<>>
    /\ pc \notin {"primary", "fallback"}
    /\ \A i \in 1..Len(sends) : sends[i].text = CRISIS_REPLY
    /\ Returned => Len(sends) = 1

C2_Witness ==
  /\ client
  /\ cur.type = "text" /\ CrisisText(cur.text)
  /\ cur.text # <<24819, 27515>> /\ Strip(cur.text) # <<24819, 27515>>
  /\ Returned /\ Len(sends) = 1 /\ sends[1].text = CRISIS_REPLY

\* C3 as stated: without crisis keyword and with a successful primary call
\* the reply sent equals the text the API returned.
C3_ReplyEqualsApiText ==
  (NonCrisisEvent /\ Len(calls) >= 1 /\ calls[1].outcome.kind = "ok") =>
    \A i \in 1..Len(sends) : sends[i].text = calls[1].outcome.content

\* C3 amended: without crisis keyword and with a successful primary call the
\* reply sent equals the text the API returned without its leading and
\* trailing whitespace (the empty string when the content is None).
C3_ReplyIsTrimmedApiText ==
  (NonCrisisEvent /\ Len(calls) >= 1 /\ calls[1].outcome.kind = "ok") =>
    /\ \A i \in 1..Len(sends) :
         IsTrimOf(sends[i].text, OrEmpty(calls[1].outcome.content))
    /\ Returned => Len(sends) = 1

C3_Witness ==
  /\ NonCrisisEvent /\ Returned
  /\ Len(calls) = 1 /\ calls[1].outcome = [kind |-> "ok", content |-> <<32, 20320>>]
  /\ Len(sends) = 1 /\ sends[1].text = <<20320>>

\* C4 as stated: when the primary call fails and the fallback call succeeds
\* the reply sent is the fallback call's returned text.
C4_ReplyEqualsFallbackText ==
  (NonCrisisEvent /\ Len(calls) = 2 /\ calls[1].outcome.kind # "ok"
     /\ calls[2].outcome.kind = "ok") =>
    \A i \in 1..Len(sends) : sends[i].text = calls[2].outcome.content

\* C4 amended: when the primary call fails and the fallback call succeeds
\* the reply sent is the fallback call's returned text without its leading
\* and trailing whitespace (the empty string when the content is None).
C4_ReplyIsTrimmedFallbackText ==
  (NonCrisisEvent /\ Len(calls) = 2 /\ calls[1].outcome.kind # "ok"
     /\ calls[2].outcome.kind = "ok") =>
    /\ calls[2].model = OPENAI_FALLBACK_MODEL
    /\ \A i \in 1..Len(sends) :
         IsTrimOf(sends[i].text, OrEmpty(calls[2].outcome.content))
    /\ Returned => Len(sends) = 1

C4_Witness ==
  /\ NonCrisisEvent /\ Returned
  /\ Len(calls) = 2 /\ calls[1].outcome.kind = "raise"
  /\ calls[2].outcome = [kind |-> "ok", content |-> <<20320, 32>>]
  /\ Len(sends) = 1 /\ sends[1].text = <<20320>>

\* C5: when both completion calls fail, ask_gpt returns (on_text goes on to
\* send) and the reply sent is the apology string.
C5_ApologyAfterTwoFailures ==
  (NonCrisisEvent /\ Len(calls) = 2 /\ calls[1].outcome.kind # "ok"
     /\ calls[2].outcome.kind # "ok") =>
    /\ pc \in {"reply", "return"}
    /\ reply = APOLOGY
    /\ \A i \in 1..Len(sends) : sends[i].text = APOLOGY
    /\ Returned => Len(sends) = 1
    /\ response = NoResponse

C5_Witness ==
  /\ NonCrisisEvent /\ Returned
  /\ Len(calls) = 2 /\ calls[1].outcome.kind = "raise"
  /\ calls[2].outcome.kind = "raise"
  /\ Len(sends) = 1 /\ sends[1].text = APOLOGY

\* C6: every request whose signature verifies is answered 200 "OK",
\* whatever happens while its events are parsed, dispatched and handled.
C6_VerifiedRequestAnswered200 ==
  (pc = "done" /\ response # NoResponse
     /\ request.signature = <<CHANNEL_SECRET, request.body>>) =>
    response = [status |-> 200, text |-> "OK"]

\* C7 as stated: the 200 response has been returned before a failed
\* reply-send attempt is made.
C7_ResponsePrecedesFailedSend ==
  (sends # <<>> /\ ~sends[Len(sends)].ok) => response.status = 200

\* C7 amended: a failed reply send is only logged, and the 200 response is
\* returned after it: no response exists while on_text runs, and when the
\* 200 response is returned every text event of the request has had its
\* reply-send attempt, failed or not.
C7_SendPrecedesResponse ==
  /\ pc \in {"dispatch", "on_text", "primary", "fallback", "reply", "return"} =>
       response = NoResponse
  /\ response.status = 200 =>
       /\ events = <<>>
       /\ attempts = Len(TextEvents(request.body))
  /\ (sends # <<>> /\ ~sends[Len(sends)].ok) =>
       /\ failed > 0
       /\ errlog # <<>> /\ errlog[Len(errlog)] = "line reply"
  /\ failed > 0 => response.status \in {0, 200}

C7_Witness ==
  /\ pc = "done" /\ response.status = 200
  /\ failed > 0 /\ attempts = Len(TextEvents(request.body))

\* C8: handling one text event makes at most two completion calls; the
\* fallback-model call is made only after the primary-model call failed, at
\* most once, and never after a successful primary call.
C8_AtMostOneFallback ==
  /\ Len(calls) <= 2
  /\ Len(calls) >= 1 => calls[1].model = OPENAI_MODEL
  /\ Len(calls) = 2 =>
       /\ calls[2].model = OPENAI_FALLBACK_MODEL
       /\ calls[1].outcome.kind # "ok"
  /\ pc = "primary" => calls = <<>>
  /\ pc = "fallback" => (Len(calls) = 1 /\ calls[1].outcome.kind # "ok")

C8_Witness ==
  /\ Returned /\ Len(calls) = 2
  /\ OPENAI_MODEL = OPENAI_FALLBACK_MODEL
  /\ calls[1].outcome.kind = "nochoices" /\ calls[2].outcome.kind = "ok"

\* C9: every text event given to on_text gets exactly one reply-send
\* attempt, with that event's reply token, whatever produced the text; a
\* failed send is logged, not retried, and does not stop the handling.
C9_OneSendPerEvent ==
  /\ Len(sends) <= 1
  /\ handled <= Len(TextEvents(request.body))
  /\ \A i \in 1..Len(sends) :
       sends[i].token = TextEvents(request.body)[handled].reply_token
  /\ pc \in {"on_text", "primary", "fallback", "reply"} =>
       (sends = <<>> /\ attempts = handled - 1)
  /\ pc \in {"return", "dispatch", "done"} => attempts = handled
  /\ Returned => Len(sends) = 1
  /\ (sends # <<>> /\ ~sends[Len(sends)].ok) =>
       /\ errlog # <<>> /\ errlog[Len(errlog)] = "line reply"
       /\ Returned
  /\ (pc = "done" /\ failed > 0) =>
       /\ response.status = 200
       /\ handled = Len(TextEvents(request.body))

C9_Witness ==
  /\ Returned /\ failed = 2 /\ attempts = 2
  /\ Len(sends) = 1 /\ sends[1].token = 2 /\ ~sends[1].ok

\* C10: without a completion-API key the process still starts, no
\* completion call is ever made, and a text event without crisis keyword is
\* answered with the notice followed by the trimmed user text, not with the
\* apology.
C10_NoKeyPlaceholder ==
  /\ pc = "aborted" => (CHANNEL_ACCESS_TOKEN = <<>> \/ CHANNEL_SECRET = <<>>)
  /\ OPENAI_API_KEY = <<>> =>
       /\ calls = <<>>
       /\ pc \notin {"primary", "fallback"}
       /\ NonCrisisEvent =>
            /\ \A i \in 1..Len(sends) :
                 /\ sends[i].text = NO_KEY_NOTICE \o Strip(OrEmpty(cur.text))
                 /\ sends[i].text # APOLOGY
            /\ Returned => Len(sends) = 1

C10_Witness ==
  /\ OPENAI_API_KEY = <<>> /\ Returned
  /\ cur.type = "text" /\ cur.text = <<32, 24819>>
  /\ Len(sends) = 1 /\ sends[1].text = NO_KEY_NOTICE \o <<24819>>
====
